---- MODULE Spec2Model ----
(***************************************************************************)
(* Model of build.py, the static site generator of unsloppable-analysis.   *)
(*                                                                         *)
(* Text is a sequence of atoms.  A maximal run of letters (a word such as  *)
(* "Acme" or "Score") is one atom; every other character (space, "#",     *)
(* "-", "*", ":", "(", ")", "/", "+", a digit) is an atom of its own.      *)
(* A line is a text, a document is a sequence of lines (content.split).    *)
(***************************************************************************)
EXTENDS Integers, Sequences, FiniteSets, TLC

VARIABLES
    lines,            \* parse_markdown: content.split('\n')
    pc,               \* position in the running function
    idx,              \* index of the next line of the running loop
    data,             \* parse_markdown: the record being built
    current_section,  \* parse_markdown, first pass
    current_value,    \* parse_markdown, first pass
    assigned,         \* the data key the last first-pass step assigned
    in_moat,          \* parse_markdown, second pass
    in_insights,      \* parse_markdown, second pass
    moat_lines,       \* parse_markdown, second pass
    insight_lines,    \* parse_markdown, second pass
    page,             \* generate_company_page: the substitutions of the page
    files,            \* main: the documents ANALYSIS_DIR.glob yields, in order
    companies,        \* main: the records handed to generate_index
    outdir,           \* main: OUTPUT_DIR, file name -> content
    written,          \* main: the file names written, in order
    score,            \* get_score_class: its argument
    score_class       \* get_score_class: its result

vars == << lines, pc, idx, data, current_section, current_value, assigned,
           in_moat, in_insights, moat_lines, insight_lines, page,
           files, companies, outdir, written, score, score_class >>

parseVars == << lines, idx, data, current_section, current_value, assigned,
                in_moat, in_insights, moat_lines, insight_lines, page >>

mainVars == << files, companies, outdir, written >>

scoreVars == << score, score_class >>

-----------------------------------------------------------------------------
(* Python's str operations, on texts.                                      *)

None == "None"

Whitespace == {" ", "\t"}

Digits == {"0", "1", "2", "3", "4", "5", "6", "7", "8", "9"}

RECURSIVE LStripChars(_, _)
LStripChars(s, chars) ==
    IF s # << >> /\ Head(s) \in chars THEN LStripChars(Tail(s), chars) ELSE s

RECURSIVE RStripChars(_, _)
RStripChars(s, chars) ==
    IF s # << >> /\ s[Len(s)] \in chars
    THEN RStripChars(SubSeq(s, 1, Len(s) - 1), chars)
    ELSE s

StripChars(s, chars) == RStripChars(LStripChars(s, chars), chars)

Strip(s) == StripChars(s, Whitespace)

\* the least index at or after `from` whose atom is in `chars`, or 0
FindFrom(s, chars, from) ==
    IF \E k \in from..Len(s) : s[k] \in chars
    THEN CHOOSE k \in from..Len(s) :
            s[k] \in chars /\ \A j \in from..(k - 1) : s[j] \notin chars
    ELSE 0

StartsWith(s, prefix) ==
    Len(s) >= Len(prefix) /\ SubSeq(s, 1, Len(prefix)) = prefix

Contains(s, atom) == \E k \in 1..Len(s) : s[k] = atom

RECURSIVE Join(_, _)
Join(parts, sep) ==
    IF parts = << >> THEN << >>
    ELSE IF Len(parts) = 1 THEN parts[1]
    ELSE parts[1] \o sep \o Join(Tail(parts), sep)

\* line.partition(':') for a line that holds a colon
Partition(line) ==
    LET p == FindFrom(line, {":"}, 1)
    IN  [key |-> SubSeq(line, 1, p - 1), value |-> SubSeq(line, p + 1, Len(line))]

\* re.search(r'(\d+)', value): the first run of digits, << >> when no match
FirstDigitRun(value) ==
    LET b == FindFrom(value, Digits, 1)
        e == IF b = 0 THEN 0
             ELSE CHOOSE k \in b..Len(value) :
                    /\ \A j \in b..k : value[j] \in Digits
                    /\ (k = Len(value) \/ value[k + 1] \notin Digits)
    IN  IF b = 0 THEN << >> ELSE SubSeq(value, b, e)

HasDigits(value) == FindFrom(value, Digits, 1) # 0

\* dict.get(key, default)
Get(d, key, default) == IF key \in DOMAIN d THEN d[key] ELSE default

-----------------------------------------------------------------------------
(* parse_markdown                                                          *)

TEMP_MARKER == << "TEMP_MARKER" >>

QSlots == {"q1", "q2", "q3", "q4", "q5", "q6", "q7", "q8"}

InitialData ==
    [ticker |-> << >>, company_name |-> << >>,
     ai_score |-> << >>, robotics_score |-> << >>,
     ai_beneficiary |-> << >>, robotics_beneficiary |-> << >>,
     value_chain |-> << >>, final_classification |-> TEMP_MARKER,
     macro_risk |-> << >>, moat_sources |-> << >>, key_insights |-> << >>,
     q1 |-> << >>, q2 |-> << >>, q3 |-> << >>, q4 |-> << >>,
     q5 |-> << >>, q6 |-> << >>, q7 |-> << >>, q8 |-> << >>]

\* re.match(r'#\s+([^(]+)\s+\(([^)]+)\)', line.strip()): the "(" of the
\* pattern is the first "(" of the line, since nothing before it may be one;
\* the ")" is the first ")" after it.  Group 1 with the white space around it
\* fills the atoms 2..p-1, which are at least three, the outer two white.
TitleMatch(raw) ==
    LET s == Strip(raw)
        p == FindFrom(s, {"("}, 1)
        q == IF p = 0 THEN 0 ELSE FindFrom(s, {")"}, p + 1)
        ok == /\ s # << >> /\ s[1] = "#"
              /\ p >= 5 /\ s[2] \in Whitespace /\ s[p - 1] \in Whitespace
              /\ q >= p + 2
    IN  [matched |-> ok,
         company_name |-> IF ok THEN Strip(SubSeq(s, 3, p - 2)) ELSE << >>,
         ticker |-> IF ok THEN Strip(SubSeq(s, p + 1, q - 1)) ELSE << >>]

\* the title loop: the first matching line sets both fields, then break
ExtractTitle(d, doc) ==
    IF \E k \in 1..Len(doc) : TitleMatch(doc[k]).matched
    THEN LET k == CHOOSE k \in 1..Len(doc) :
                    /\ TitleMatch(doc[k]).matched
                    /\ \A j \in 1..(k - 1) : ~TitleMatch(doc[j]).matched
             m == TitleMatch(doc[k])
         IN  [d EXCEPT !.company_name = m.company_name, !.ticker = m.ticker]
    ELSE d

KeyAIScore == << "AI", " ", "Software", " ", "Vulnerability", " ", "Score" >>
KeyRoboticsScore == << "Robotics", " ", "Vulnerability", " ", "Score" >>
KeyAIBeneficiary == << "AI", " ", "Beneficiary" >>
KeyRoboticsBeneficiary == << "Robotics", " ", "Beneficiary" >>
KeyValueChain == << "Value", " ", "Chain", " ", "Position" >>
KeyFinalClassification == << "Final", " ", "Classification" >>
KeyMacroRisk == << "Macro", " ", "Contagion", " ", "Risk" >>

\* key.strip().rstrip('*').strip('-* ')
NormalizeKey(key) ==
    StripChars(RStripChars(Strip(key), {"*"}), {"-", "*", " "})

\* the if/elif chain over the key: the data key it assigns, None when none
AssignedField(key, value) ==
    CASE key = KeyAIScore -> IF HasDigits(value) THEN "ai_score" ELSE None
      [] key = KeyRoboticsScore ->
            IF HasDigits(value) THEN "robotics_score" ELSE None
      [] key = KeyAIBeneficiary -> "ai_beneficiary"
      [] key = KeyRoboticsBeneficiary -> "robotics_beneficiary"
      [] key = KeyValueChain -> "value_chain"
      [] key = KeyFinalClassification -> "final_classification"
      [] key = KeyMacroRisk -> "macro_risk"
      [] OTHER -> None

\* AssignedValue storing a score value whole, digits unextracted
AssignedValueVerbatim(key, value) == value

\* ... and the value it assigns
AssignedValue(key, value) ==
    IF key \in {KeyAIScore, KeyRoboticsScore} THEN FirstDigitRun(value)
    ELSE value

\* the saving of the current section at a blank or heading line
FlushSection(d, section, value) ==
    IF section # None /\ value # << >>
    THEN IF section = "key_insights"
         THEN [d EXCEPT ![section] =
                 LET kept == SelectSeq(value, LAMBDA l : Strip(l) # << >>)
                 IN  [k \in 1..Len(kept) |-> LStripChars(kept[k], {"-", " "})]]
         ELSE [d EXCEPT ![section] = Strip(Join(value, << " " >>))]
    ELSE d

\* IsBoundary skipping bullet lines too
IsBoundarySkipsBullets(line) == line = << >> \/ Head(line) \in {"#", "-"}

IsBoundary(line) == line = << >> \/ Head(line) = "#"

\* Pass1Line making the field of a recognized key the active section
Pass1LineAccumulating(st, raw) ==
    LET line == Strip(raw)
    IN  IF IsBoundary(line)
        THEN [data |-> FlushSection(st.data, st.current_section, st.current_value),
              current_section |-> None,
              current_value |-> << >>,
              assigned |-> IF st.current_section # None /\ st.current_value # << >>
                           THEN st.current_section ELSE None]
        ELSE IF Contains(line, ":")
        THEN LET kv == Partition(line)
                 key == NormalizeKey(kv.key)
                 value == Strip(kv.value)
                 f == AssignedField(key, value)
             IN  [data |-> IF f = None THEN st.data
                           ELSE [st.data EXCEPT ![f] = AssignedValue(key, value)],
                  current_section |-> IF f = None THEN st.current_section ELSE f,
                  current_value |-> st.current_value,
                  assigned |-> f]
        ELSE [st EXCEPT !.assigned = None,
                        !.current_value = IF st.current_section = None THEN @
                                          ELSE Append(@, line)]

\* one iteration of the first loop over the lines
Pass1Line(st, raw) ==
    LET line == Strip(raw)
    IN  IF IsBoundary(line)
        THEN [data |-> FlushSection(st.data, st.current_section, st.current_value),
              current_section |-> None,
              current_value |-> << >>,
              assigned |-> IF st.current_section # None /\ st.current_value # << >>
                           THEN st.current_section ELSE None]
        ELSE IF Contains(line, ":")
        THEN LET kv == Partition(line)
                 key == NormalizeKey(kv.key)
                 value == Strip(kv.value)
                 f == AssignedField(key, value)
             IN  [data |-> IF f = None THEN st.data
                           ELSE [st.data EXCEPT ![f] = AssignedValue(key, value)],
                  current_section |-> st.current_section,
                  current_value |-> st.current_value,
                  assigned |-> f]
        ELSE [st EXCEPT !.assigned = None]

HeadingMoat == << "#", "#", " ", "Moat", " ", "Sources" >>
HeadingInsights == << "#", "#", " ", "Key", " ", "Insights" >>
PrefixPressure == << "#", "#", " ", "Pressure" >>
Bullet == << "-", " " >>

\* Pass2Line clearing the flags at the bare line "## Pressure" only
Pass2LinePressureExact(st, raw) ==
    LET line == Strip(raw)
    IN  IF line = HeadingMoat
        THEN [st EXCEPT !.in_moat = TRUE, !.in_insights = FALSE]
        ELSE IF line = HeadingInsights
        THEN [st EXCEPT !.in_moat = FALSE, !.in_insights = TRUE]
        ELSE IF line = PrefixPressure
        THEN [st EXCEPT !.in_moat = FALSE, !.in_insights = FALSE]
        ELSE IF st.in_moat /\ line # << >>
        THEN [st EXCEPT !.moat_lines = Append(@, line)]
        ELSE IF st.in_insights /\ StartsWith(line, Bullet)
        THEN [st EXCEPT !.insight_lines = Append(@, SubSeq(line, 3, Len(line)))]
        ELSE st

\* one iteration of the second loop over the lines
Pass2Line(st, raw) ==
    LET line == Strip(raw)
    IN  IF line = HeadingMoat
        THEN [st EXCEPT !.in_moat = TRUE, !.in_insights = FALSE]
        ELSE IF line = HeadingInsights
        THEN [st EXCEPT !.in_moat = FALSE, !.in_insights = TRUE]
        ELSE IF StartsWith(line, PrefixPressure)
        THEN [st EXCEPT !.in_moat = FALSE, !.in_insights = FALSE]
        ELSE IF st.in_moat /\ line # << >>
        THEN [st EXCEPT !.moat_lines = Append(@, line)]
        ELSE IF st.in_insights /\ StartsWith(line, Bullet)
        THEN [st EXCEPT !.insight_lines = Append(@, SubSeq(line, 3, Len(line)))]
        ELSE st

\* the two assignments before return
StoreSections(d, moat, insights) ==
    [d EXCEPT !.moat_sources = Strip(Join(moat, << " " >>)),
              !.key_insights = insights]

Pass1Start(d) ==
    [data |-> d, current_section |-> None, current_value |-> << >>,
     assigned |-> None]

Pass2Start ==
    [in_moat |-> FALSE, in_insights |-> FALSE,
     moat_lines |-> << >>, insight_lines |-> << >>]

RECURSIVE Pass1Loop(_, _, _)
Pass1Loop(st, doc, k) ==
    IF k > Len(doc) THEN st ELSE Pass1Loop(Pass1Line(st, doc[k]), doc, k + 1)

RECURSIVE Pass2Loop(_, _, _)
Pass2Loop(st, doc, k) ==
    IF k > Len(doc) THEN st ELSE Pass2Loop(Pass2Line(st, doc[k]), doc, k + 1)

\* parse_markdown as a function of the document
ParseMarkdown(doc) ==
    LET s1 == Pass1Loop(Pass1Start(ExtractTitle(InitialData, doc)), doc, 1)
        s2 == Pass2Loop(Pass2Start, doc, 1)
    IN  StoreSections(s1.data, s2.moat_lines, s2.insight_lines)

-----------------------------------------------------------------------------
(* CLASSIFICATION_MAP, get_score_class, get_macro_risk_class               *)

LabelUB == << "Unsloppable", " ", "+", " ", "Beneficiary" >>
LabelUH == << "Unsloppable", " ", "+", " ", "High", " ", "Transition", " ", "Risk" >>
LabelUM == << "Unsloppable", " ", "+", " ", "Macro", " ", "Exposed" >>
LabelSB == << "Sloppable", " ", "+", " ", "Beneficiary" >>
LabelSC == << "Sloppable", " ", "+", " ", "Clankerable" >>

KnownLabels == {LabelUB, LabelUH, LabelUM, LabelSB, LabelSC}

KnownIds == {"UnsloppableBeneficiary", "UnsloppableHighTransitionRisk",
             "UnsloppableMacroExposed", "SloppableBeneficiary",
             "SloppableClankerable"}

DefaultPresentation ==
    [badge |-> "bg-gray-100 text-gray-800", short |-> << "Unknown" >>, id |-> ""]

\* CLASSIFICATION_MAP.get(classification, ("bg-gray-100 text-gray-800", "Unknown", ""))
ClassificationLookup(label) ==
    CASE label = LabelUB ->
            [badge |-> "bg-green-100 text-green-800",
             short |-> << "Unsloppable", "\n", "+", "Beneficiary" >>,
             id |-> "UnsloppableBeneficiary"]
      [] label = LabelUH ->
            [badge |-> "bg-blue-100 text-blue-800",
             short |-> << "High", "\n", "Transition" >>,
             id |-> "UnsloppableHighTransitionRisk"]
      [] label = LabelUM ->
            [badge |-> "bg-yellow-100 text-yellow-800",
             short |-> << "Macro", "\n", "Exposed" >>,
             id |-> "UnsloppableMacroExposed"]
      [] label = LabelSB ->
            [badge |-> "bg-red-100 text-red-800",
             short |-> << "Sloppable", "\n", "+", "Beneficiary" >>,
             id |-> "SloppableBeneficiary"]
      [] label = LabelSC ->
            [badge |-> "bg-red-200 text-red-900",
             short |-> << "Sloppable", "\n", "+", "Clankerable" >>,
             id |-> "SloppableClankerable"]
      [] OTHER -> DefaultPresentation

DigitSeq == << "0", "1", "2", "3", "4", "5", "6", "7", "8", "9" >>

DigitVal(c) == (CHOOSE k \in 1..10 : DigitSeq[k] = c) - 1

RECURSIVE DecimalValue(_)
DecimalValue(ds) ==
    IF ds = << >> THEN 0
    ELSE 10 * DecimalValue(SubSeq(ds, 1, Len(ds) - 1)) + DigitVal(ds[Len(ds)])

\* int(text): white space around, an optional sign, then digits only;
\* anything else raises ValueError
IntOf(text) ==
    LET s == Strip(text)
        signed == s # << >> /\ s[1] \in {"+", "-"}
        ds == IF signed THEN Tail(s) ELSE s
        ok == ds # << >> /\ \A k \in 1..Len(ds) : ds[k] \in Digits
    IN  [ok |-> ok,
         value |-> IF ~ok THEN 0
                   ELSE IF signed /\ s[1] = "-" THEN 0 - DecimalValue(ds)
                   ELSE DecimalValue(ds)]

ScoreLow == 3
ScoreMedium == 6

\* GetScoreClass with the bounds excluded: < for <=
GetScoreClassStrict(s) ==
    LET n == IntOf(s)
    IN  IF ~n.ok THEN "text-gray-600"
        ELSE IF n.value < ScoreLow THEN "text-green-600"
        ELSE IF n.value < ScoreMedium THEN "text-yellow-600"
        ELSE "text-red-600"

GetScoreClass(s) ==
    LET n == IntOf(s)
    IN  IF ~n.ok THEN "text-gray-600"
        ELSE IF n.value <= ScoreLow THEN "text-green-600"
        ELSE IF n.value <= ScoreMedium THEN "text-yellow-600"
        ELSE "text-red-600"

\* the words whose lower-cased letters hold "low", and "medium"
WordsWithLow == {"Low", "low", "LOW", "Lower", "lower", "Slow", "slow"}
WordsWithMedium == {"Medium", "medium", "MEDIUM"}

GetMacroRiskClass(risk) ==
    IF \E k \in 1..Len(risk) : risk[k] \in WordsWithLow THEN "text-green-600"
    ELSE IF \E k \in 1..Len(risk) : risk[k] \in WordsWithMedium
    THEN "text-yellow-600"
    ELSE "text-red-600"

\* text.split(' - ')[0]
BeforeDash(text) ==
    IF \E k \in 1..(Len(text) - 2) : SubSeq(text, k, k + 2) = << " ", "-", " " >>
    THEN LET k == CHOOSE k \in 1..(Len(text) - 2) :
                    /\ SubSeq(text, k, k + 2) = << " ", "-", " " >>
                    /\ \A j \in 1..(k - 1) :
                          SubSeq(text, j, j + 2) # << " ", "-", " " >>
         IN  SubSeq(text, 1, k - 1)
    ELSE text

NA == << "N/A" >>
Unknown == << "Unknown" >>

-----------------------------------------------------------------------------
(* generate_company_page: the substitutions and the insight list items     *)
(* (the template itself is an external file)                               *)

GenerateCompanyPage(d) ==
    [Ticker |-> Get(d, "ticker", << >>),
     CompanyName |-> Get(d, "company_name", Get(d, "ticker", << >>)),
     FinalClassification |-> Get(d, "final_classification", Unknown),
     BadgeClass |-> ClassificationLookup(Get(d, "final_classification", << >>)).badge,
     AIScore |-> Get(d, "ai_score", NA),
     RoboticsScore |-> Get(d, "robotics_score", NA),
     \* the default 0 of data.get is written as the text "0": int(0) = int("0")
     AIScoreClass |-> GetScoreClass(Get(d, "ai_score", << "0" >>)),
     RoboticsScoreClass |-> GetScoreClass(Get(d, "robotics_score", << "0" >>)),
     ValueChain |-> Get(d, "value_chain", Unknown),
     MacroRisk |-> BeforeDash(Get(d, "macro_risk", Unknown)),
     MacroRiskClass |-> GetMacroRiskClass(Get(d, "macro_risk", << >>)),
     AIBeneficiary |-> Get(d, "ai_beneficiary", NA),
     RoboticsBeneficiary |-> Get(d, "robotics_beneficiary", NA),
     MoatSources |-> Get(d, "moat_sources", NA),
     Q |-> [q \in QSlots |-> Get(d, q, NA)],
     Insights |-> Get(d, "key_insights", << >>)]

-----------------------------------------------------------------------------
(* The documents parse_markdown is run on: every sequence of one to        *)
(* MaxLines lines of DocLines (content.split never yields no line).        *)

MaxLines == 3

LineTitle == << "#", " ", "Acme", " ", "(", "ACME", ")" >>
LineBlank == << " " >>
LineInsights == HeadingInsights
LineMoat == HeadingMoat
LinePressure == PrefixPressure \o << " ", "Test" >>
LineHeadingKey == << "#", "#", " " >> \o KeyFinalClassification \o << ":", " ", "Foo" >>
LineAlpha == << "-", " ", "Alpha" >>
LineBeta == << " ", "-", " ", "Beta" >>
LineGamma == << "-", "Gamma" >>
LineAI7 == KeyAIScore \o << ":", " ", "7", "/", "1", "0" >>
LineAINone == KeyAIScore \o << ":", " ", "none" >>
LineRobotics12 ==
    << "*", "*" >> \o KeyRoboticsScore \o << ":", "*", "*", " ", "Score", ":", " ", "1", "2" >>
LineClassUB == KeyFinalClassification \o << ":", " " >> \o LabelUB
LineClassFoo ==
    << "-", " ", "*", "*" >> \o KeyFinalClassification \o << "*", "*", ":", " ", "Foo" >>
LineAIBeneficiary == KeyAIBeneficiary \o << ":", " ", "Yes" >>
LineRoboticsBeneficiary == KeyRoboticsBeneficiary \o << ":", " ", "No" >>
LineValueChain == KeyValueChain \o << ":", " ", "Mid" >>
LineMacroRisk == KeyMacroRisk \o << ":", " ", "Low", " ", "-", " ", "fine" >>

DocLines ==
    {LineTitle, LineBlank, LineInsights, LineMoat, LinePressure, LineHeadingKey,
     LineAlpha, LineBeta, LineGamma, LineAI7, LineAINone, LineRobotics12,
     LineClassUB, LineClassFoo, LineAIBeneficiary, LineRoboticsBeneficiary,
     LineValueChain, LineMacroRisk}

Docs == UNION {[1..n -> DocLines] : n \in 1..MaxLines}

NoPage == [none |-> TRUE]

IdleMain ==
    /\ files = << >> /\ companies = << >>
    /\ outdir = << >> /\ written = << >>

IdleScore == score = << >> /\ score_class = None

IdleParse ==
    /\ lines = << >> /\ data = InitialData
    /\ current_section = None /\ current_value = << >> /\ assigned = None
    /\ in_moat = FALSE /\ in_insights = FALSE
    /\ moat_lines = << >> /\ insight_lines = << >>
    /\ page = NoPage

-----------------------------------------------------------------------------
(* Spec: one run of parse_markdown, line by line, and the detail page main *)
(* renders from the record when its ticker is not empty.                   *)

Init ==
    /\ lines \in Docs
    /\ pc = "title"
    /\ idx = 1
    /\ data = InitialData
    /\ current_section = None /\ current_value = << >> /\ assigned = None
    /\ in_moat = FALSE /\ in_insights = FALSE
    /\ moat_lines = << >> /\ insight_lines = << >>
    /\ page = NoPage
    /\ IdleMain /\ IdleScore

TitleLoop ==
    /\ pc = "title"
    /\ data' = ExtractTitle(data, lines)
    /\ pc' = "pass1"
    /\ UNCHANGED << lines, idx, current_section, current_value, assigned,
                    in_moat, in_insights, moat_lines, insight_lines, page >>
    /\ UNCHANGED << mainVars, scoreVars >>

FirstPassLine ==
    /\ pc = "pass1"
    /\ LET st == Pass1Line([data |-> data, current_section |-> current_section,
                            current_value |-> current_value,
                            assigned |-> assigned], lines[idx])
       IN  /\ data' = st.data
           /\ current_section' = st.current_section
           /\ current_value' = st.current_value
           /\ assigned' = st.assigned
    /\ IF idx < Len(lines)
       THEN idx' = idx + 1 /\ pc' = "pass1"
       ELSE idx' = 1 /\ pc' = "pass2"
    /\ UNCHANGED << lines, in_moat, in_insights, moat_lines, insight_lines, page >>
    /\ UNCHANGED << mainVars, scoreVars >>

SecondPassLine ==
    /\ pc = "pass2"
    /\ LET st == Pass2Line([in_moat |-> in_moat, in_insights |-> in_insights,
                            moat_lines |-> moat_lines,
                            insight_lines |-> insight_lines], lines[idx])
       IN  /\ in_moat' = st.in_moat
           /\ in_insights' = st.in_insights
           /\ moat_lines' = st.moat_lines
           /\ insight_lines' = st.insight_lines
           /\ IF idx < Len(lines)
              THEN idx' = idx + 1 /\ pc' = "pass2" /\ data' = data
              ELSE /\ idx' = idx + 1 /\ pc' = "returned"
                   /\ data' = StoreSections(data, st.moat_lines, st.insight_lines)
    /\ UNCHANGED << lines, current_section, current_value, assigned, page >>
    /\ UNCHANGED << mainVars, scoreVars >>

RenderPage ==
    /\ pc = "returned"
    /\ data.ticker # << >>
    /\ page' = GenerateCompanyPage(data)
    /\ pc' = "rendered"
    /\ UNCHANGED << lines, idx, data, current_section, current_value, assigned,
                    in_moat, in_insights, moat_lines, insight_lines >>
    /\ UNCHANGED << mainVars, scoreVars >>

Next == TitleLoop \/ FirstPassLine \/ SecondPassLine \/ RenderPage

Spec == Init /\ [][Next]_vars

-----------------------------------------------------------------------------
(* generate_index: the counters and the cards of the index page            *)

InitialStats == [id \in KnownIds |-> 0]

\* CountRecord setting the counter to one instead of adding one
CountRecordSet(stats, id) ==
    [k \in DOMAIN stats \cup {id} |-> IF k = id THEN 1 ELSE stats[k]]

\* stats[css_class] = stats.get(css_class, 0) + 1
CountRecord(stats, id) ==
    [k \in DOMAIN stats \cup {id} |->
        IF k = id THEN Get(stats, id, 0) + 1 ELSE stats[k]]

\* short.replace("\n", " ")
ReplaceNewlines(text) ==
    [k \in 1..Len(text) |-> IF text[k] = "\n" THEN " " ELSE text[k]]

\* the number of letters of each word atom of the modelled documents
WordLengths ==
    [Acme |-> 4, ACME |-> 4, Other |-> 5, Corp |-> 4, Idx |-> 3, index |-> 5,
     Nop |-> 3, Key |-> 3, Insights |-> 8, Moat |-> 4, Sources |-> 7,
     Pressure |-> 8, Test |-> 4, Final |-> 5, Classification |-> 14, Foo |-> 3,
     Alpha |-> 5, Beta |-> 4, Gamma |-> 5, AI |-> 2, Software |-> 8,
     Vulnerability |-> 13, Score |-> 5, none |-> 4, Robotics |-> 8,
     Beneficiary |-> 11, Yes |-> 3, No |-> 2, Value |-> 5, Chain |-> 5,
     Position |-> 8, Mid |-> 3, Macro |-> 5, Contagion |-> 9, Risk |-> 4,
     Low |-> 3, fine |-> 4, Unsloppable |-> 11, Sloppable |-> 9, High |-> 4,
     Transition |-> 10, Exposed |-> 7, Clankerable |-> 11]

\* len(atom): a word counts its letters, any other atom is one character
AtomLen(a) == IF a \in DOMAIN WordLengths THEN WordLengths[a] ELSE 1

ExcerptLen == 100

\* text[:n]: the atoms that fit, and the first letters of a word cut in two
RECURSIVE TakeChars(_, _)
TakeChars(text, n) ==
    IF text = << >> \/ n <= 0 THEN << >>
    ELSE IF AtomLen(Head(text)) <= n
    THEN << Head(text) >> \o TakeChars(Tail(text), n - AtomLen(Head(text)))
    ELSE << [word |-> Head(text), letters |-> n] >>

\* (c.get("moat_sources", "") or "")[:100] + "..."
Excerpt(text) == TakeChars(text, ExcerptLen) \o << "..." >>

IndexCard(c) ==
    LET p == ClassificationLookup(Get(c, "final_classification", << >>))
    IN  [Ticker |-> Get(c, "ticker", << >>),
         CompanyName |-> Get(c, "company_name", Get(c, "ticker", << >>)),
         ClassificationShort |-> ReplaceNewlines(p.short),
         ClassificationClass |-> p.id,
         BadgeClass |-> p.badge,
         AIScore |-> Get(c, "ai_score", NA),
         RoboticsScore |-> Get(c, "robotics_score", NA),
         MoatSources |-> Excerpt(Get(c, "moat_sources", << >>))]

RECURSIVE CountAll(_, _, _)
CountAll(stats, cs, k) ==
    IF k > Len(cs) THEN stats
    ELSE CountAll(
            CountRecord(stats,
                ClassificationLookup(Get(cs[k], "final_classification", << >>)).id),
            cs, k + 1)

GenerateIndex(cs) ==
    [stats |-> CountAll(InitialStats, cs, 1),
     cards |-> [k \in 1..Len(cs) |-> IndexCard(cs[k])]]

-----------------------------------------------------------------------------
(* SpecMain: main over the documents of the analysis directory.            *)

MaxFiles == 3

LineTitleOther == << "#", " ", "Other", " ", "Corp", " ", "(", "ACME", ")" >>
LineTitleIndex == << "#", " ", "Idx", " ", "(", "index", ")" >>
LineTitleBlank == << "#", " ", "Nop", " ", "(", " ", ")" >>
LineNoTitle == << "Acme", " ", "(", "ACME", ")" >>
LineClassUH == KeyFinalClassification \o << ":", " " >> \o LabelUH
LineClassUM == KeyFinalClassification \o << ":", " " >> \o LabelUM
LineClassSB == KeyFinalClassification \o << ":", " " >> \o LabelSB
LineClassSC == KeyFinalClassification \o << ":", " " >> \o LabelSC

MainDocs ==
    {<< LineTitle, c >> : c \in {LineClassUB, LineClassUH, LineClassUM,
                                 LineClassSB, LineClassSC, LineClassFoo, LineAI7}}
    \cup {<< t >> : t \in {LineTitle, LineTitleOther, LineTitleIndex,
                           LineTitleBlank, LineNoTitle}}
    \cup {<< LineTitleOther, LineClassUB >>, << LineTitleIndex, LineClassSC >>,
          << LineNoTitle, LineClassUB >>}

FileSeqs == UNION {[1..n -> MainDocs] : n \in 0..MaxFiles}

\* f"{data['ticker']}.html"
PageFile(ticker) == ticker \o << ".", "html" >>

IndexFile == << "index", ".", "html" >>

\* HasTicker letting every Record through
HasTickerAlways(d) == TRUE

\* if data.get("ticker"):
HasTicker(d) == Get(d, "ticker", << >>) # << >>

\* path.write_text(content)
WriteText(dir, name, content) ==
    [f \in DOMAIN dir \cup {name} |-> IF f = name THEN content ELSE dir[f]]

EmptyDir == [f \in {} |-> NoPage]

InitMain ==
    /\ files \in FileSeqs
    /\ pc = "main"
    /\ idx = 1
    /\ companies = << >>
    /\ outdir = EmptyDir
    /\ written = << >>
    /\ lines = << >> /\ data = InitialData
    /\ current_section = None /\ current_value = << >> /\ assigned = None
    /\ in_moat = FALSE /\ in_insights = FALSE
    /\ moat_lines = << >> /\ insight_lines = << >>
    /\ page = NoPage
    /\ IdleScore

\* one iteration of the loop over the documents
ProcessFile ==
    /\ pc = "main"
    /\ idx <= Len(files)
    /\ LET d == ParseMarkdown(files[idx])
       IN  /\ data' = d
           /\ IF HasTicker(d)
              THEN /\ companies' = Append(companies, d)
                   /\ outdir' = WriteText(outdir, PageFile(d.ticker),
                                          GenerateCompanyPage(d))
                   /\ written' = Append(written, PageFile(d.ticker))
              ELSE UNCHANGED << companies, outdir, written >>
    /\ idx' = idx + 1
    /\ UNCHANGED << pc, files, lines, current_section, current_value, assigned,
                    in_moat, in_insights, moat_lines, insight_lines, page >>
    /\ UNCHANGED scoreVars

\* after the loop: the index page
WriteIndex ==
    /\ pc = "main"
    /\ idx > Len(files)
    /\ outdir' = WriteText(outdir, IndexFile, GenerateIndex(companies))
    /\ written' = Append(written, IndexFile)
    /\ pc' = "done"
    /\ UNCHANGED << idx, files, companies, lines, data, current_section,
                    current_value, assigned, in_moat, in_insights, moat_lines,
                    insight_lines, page >>
    /\ UNCHANGED scoreVars

NextMain == ProcessFile \/ WriteIndex

SpecMain == InitMain /\ [][NextMain]_vars

-----------------------------------------------------------------------------
(* SpecScore: get_score_class on the texts of at most MaxScoreLen atoms.   *)

MaxScoreLen == 2

ScoreAtoms == {"0", "1", "3", "4", "6", "7", "-", " ", "a", "."}

ScoreInputs == UNION {[1..n -> ScoreAtoms] : n \in 0..MaxScoreLen}

InitScore ==
    /\ score \in ScoreInputs
    /\ score_class = None
    /\ pc = "score"
    /\ idx = 0
    /\ IdleParse /\ IdleMain

CallGetScoreClass ==
    /\ pc = "score"
    /\ score_class' = GetScoreClass(score)
    /\ pc' = "scored"
    /\ UNCHANGED << score, parseVars, mainVars >>

NextScore == CallGetScoreClass

SpecScore == InitScore /\ [][NextScore]_vars

-----------------------------------------------------------------------------
(* What the specification's sentences say about a document, written from   *)
(* their own words rather than from the loops above.                        *)

Trimmed(k) == Strip(lines[k])

\* a line that holds a colon has a key (before the first colon) and a value
IsPairLine(k) == Contains(Trimmed(k), ":")

KeyOfLine(k) == NormalizeKey(Partition(Trimmed(k)).key)

ValueOfLine(k) == Strip(Partition(Trimmed(k)).value)

\* r is the first run of digits of v: it starts at the first digit of v and
\* runs to the last digit before the next atom that is no digit
IsFirstDigitRunOf(r, v) ==
    \E b \in 1..Len(v) : \E e \in b..Len(v) :
        /\ \A j \in 1..(b - 1) : v[j] \notin Digits
        /\ \A j \in b..e : v[j] \in Digits
        /\ (e < Len(v) => v[e + 1] \notin Digits)
        /\ r = SubSeq(v, b, e)

NoDigitIn(v) == \A j \in 1..Len(v) : v[j] \notin Digits

ScoreKeyField == { << KeyAIScore, "ai_score" >>, << KeyRoboticsScore, "robotics_score" >> }

VerbatimKeyField ==
    { << KeyAIBeneficiary, "ai_beneficiary" >>,
      << KeyRoboticsBeneficiary, "robotics_beneficiary" >>,
      << KeyValueChain, "value_chain" >>,
      << KeyFinalClassification, "final_classification" >>,
      << KeyMacroRisk, "macro_risk" >> }

SevenFields == {kf[2] : kf \in ScoreKeyField \cup VerbatimKeyField}

\* the lines among the first n that carry `key`
KeyLines(key, n) == {k \in 1..n : IsPairLine(k) /\ KeyOfLine(k) = key}

Last(S) == CHOOSE k \in S : \A j \in S : j <= k

\* the number of lines the first pass has gone through
Pass1Done == IF pc = "title" THEN 0 ELSE IF pc = "pass1" THEN idx - 1 ELSE Len(lines)

Returned == pc \in {"returned", "rendered"}

-----------------------------------------------------------------------------
(* Properties of parse_markdown and of the detail page (Spec).               *)

SetsInsights(k) == Trimmed(k) = << "#", "#", " ", "Key", " ", "Insights" >>

ClearsInsights(k) ==
    \/ Trimmed(k) = << "#", "#", " ", "Moat", " ", "Sources" >>
    \/ /\ Len(Trimmed(k)) >= 4
       /\ SubSeq(Trimmed(k), 1, 4) = << "#", "#", " ", "Pressure" >>

\* the flag as line k is read: some earlier line set it, none since cleared it
InsightsFlagAt(k) ==
    \E j \in 1..(k - 1) :
        SetsInsights(j) /\ \A m \in (j + 1)..(k - 1) : ~ClearsInsights(m)

IsBulletLine(k) ==
    Len(Trimmed(k)) >= 2 /\ Trimmed(k)[1] = "-" /\ Trimmed(k)[2] = " "

RECURSIVE InsightsOf(_)
InsightsOf(n) ==
    IF n = 0 THEN << >>
    ELSE IF InsightsFlagAt(n) /\ IsBulletLine(n)
    THEN Append(InsightsOf(n - 1), Tail(Tail(Trimmed(n))))
    ELSE InsightsOf(n - 1)

\* C4: key_insights of the returned Record is, in document order, the lines
\* that start with "- " (marker stripped) met while the inside-Key-Insights
\* flag is set; the flag is set only by a line equal to "## Key Insights" and
\* cleared only by a line equal to "## Moat Sources" or one beginning with
\* "## Pressure" (lines taken as the loop sees them, trimmed).
C4_KeyInsights ==
    /\ pc = "pass2" =>
          /\ in_insights = InsightsFlagAt(idx)
          /\ insight_lines = InsightsOf(idx - 1)
    /\ Returned => data.key_insights = InsightsOf(Len(lines))

C4_Witness ==
    /\ Returned
    /\ lines = << LineInsights, LineAlpha, LineBeta >>
    /\ data.key_insights = << << "Alpha" >>, << "Beta" >> >>

ScoreFieldOk(key, field, n) ==
    LET withDigits == {k \in KeyLines(key, n) : ~NoDigitIn(ValueOfLine(k))}
    IN  IF withDigits = {} THEN data[field] = << >>
        ELSE IsFirstDigitRunOf(data[field], ValueOfLine(Last(withDigits)))

\* C5: each score field holds the first run of digits of the value of its
\* key line (of the last such line that has digits), and is left as it was,
\* empty from the start, by a key line whose value has no digits.
C5_ScoreExtraction ==
    pc # "title" =>
        \A kf \in ScoreKeyField : ScoreFieldOk(kf[1], kf[2], Pass1Done)

C5_Witness ==
    /\ Returned
    /\ lines = << LineAI7, LineRobotics12, LineAINone >>
    /\ data.ai_score = << "7" >>
    /\ data.robotics_score = << "1", "2" >>

AllKeyField == ScoreKeyField \cup VerbatimKeyField

LastVerbatimWins(d) ==
    \A kf \in VerbatimKeyField :
        KeyLines(kf[1], Len(lines)) # {} =>
            d[kf[2]] = ValueOfLine(Last(KeyLines(kf[1], Len(lines))))

\* C9, as the specification words it: in the first pass every line that holds a colon and whose
\* trimmed key is one of the seven recognized keys updates (assigns) the
\* field of that key, heading or not, and the last line of a verbatim-stored
\* key determines its field.
C9_EveryKeyLineUpdates ==
    [][pc = "pass1" =>
          /\ \A kf \in AllKeyField :
                (IsPairLine(idx) /\ KeyOfLine(idx) = kf[1]) => assigned' = kf[2]
          /\ pc' = "pass2" => LastVerbatimWins(data')]_vars

\* C9, as the code has it: a line that holds a colon and whose trimmed key is one of the
\* five verbatim keys sets that field to its trimmed value; one whose key is
\* a score key sets the score field to the first run of digits of its value,
\* and changes nothing when the value has no digit; nothing else of the
\* Record changes; this is so whatever the lines before it were (a heading
\* line never carries a recognized key); the last line of a verbatim-stored
\* key determines its field.
C9_KeyLineUpdates ==
    [][pc = "pass1" =>
          /\ \A kf \in AllKeyField :
                (IsPairLine(idx) /\ KeyOfLine(idx) = kf[1]) =>
                    IF kf \in ScoreKeyField /\ NoDigitIn(ValueOfLine(idx))
                    THEN assigned' = None /\ data' = data
                    ELSE /\ assigned' = kf[2]
                         /\ IF kf \in ScoreKeyField
                            THEN IsFirstDigitRunOf(data'[kf[2]], ValueOfLine(idx))
                            ELSE data'[kf[2]] = ValueOfLine(idx)
                         /\ \A f \in DOMAIN data \ {kf[2]} : data'[f] = data[f]
          /\ (Trimmed(idx) # << >> /\ Head(Trimmed(idx)) = "#") =>
                \A kf \in AllKeyField : ~(IsPairLine(idx) /\ KeyOfLine(idx) = kf[1])
          /\ pc' = "pass2" => LastVerbatimWins(data')]_vars

C9_Witness ==
    /\ pc = "pass2"
    /\ lines = << LineClassUB, LineHeadingKey, LineClassFoo >>
    /\ data.final_classification = << "Foo" >>
    /\ assigned = "final_classification"

\* C10: all through the first pass the active section key is none and nothing
\* is pending, so the flush at a section boundary never writes: the first
\* pass assigns only the seven recognized-key fields, q1..q8 are empty in
\* the returned Record, and moat_sources and key_insights are what the
\* second pass gathered.
C10_SectionNeverActive ==
    /\ current_section = None
    /\ current_value = << >>
    /\ assigned \in SevenFields \cup {None}
    /\ pc \in {"pass1", "pass2"} =>
          \A f \in DOMAIN data \ SevenFields :
              data[f] = ExtractTitle(InitialData, lines)[f]
    /\ Returned =>
          /\ \A q \in QSlots : data[q] = << >>
          /\ data.moat_sources = Strip(Join(moat_lines, << " " >>))
          /\ data.key_insights = insight_lines

C10_Witness ==
    /\ Returned
    /\ lines = << LineAIBeneficiary, LineGamma, LineBlank >>
    /\ data.ai_beneficiary = << "Yes" >>
    /\ data.moat_sources = << >>
    /\ current_section = None

\* C7: an optional field the document did not supply (a score, a beneficiary
\* field, moat sources, q1..q8) is "N/A" on the detail page, and a missing
\* score is "N/A" on the index card.
C7_MissingFieldsRenderNA ==
    pc = "rendered" =>
        /\ data.ai_score = << >> =>
              page.AIScore = NA /\ IndexCard(data).AIScore = NA
        /\ data.robotics_score = << >> =>
              page.RoboticsScore = NA /\ IndexCard(data).RoboticsScore = NA
        /\ data.ai_beneficiary = << >> => page.AIBeneficiary = NA
        /\ data.robotics_beneficiary = << >> => page.RoboticsBeneficiary = NA
        /\ data.moat_sources = << >> => page.MoatSources = NA
        /\ \A q \in QSlots : data[q] = << >> => page.Q[q] = NA

\* C8: a Record whose final_classification is none of the five known labels
\* (the initial sentinel included) gets the default presentation on the
\* detail page and on the index card: the gray badge, the label "Unknown",
\* the empty identifier.
C8_UnknownPresentation ==
    (pc = "rendered" /\ data.final_classification \notin KnownLabels) =>
        /\ page.BadgeClass = "bg-gray-100 text-gray-800"
        /\ page.FinalClassification = << "Unknown" >>
        /\ IndexCard(data).BadgeClass = "bg-gray-100 text-gray-800"
        /\ IndexCard(data).ClassificationShort = << "Unknown" >>
        /\ IndexCard(data).ClassificationClass = ""

-----------------------------------------------------------------------------
(* Properties of main and generate_index (SpecMain).                       *)

Parsed(k) == ParseMarkdown(files[k])

NoTitleLine(doc) == \A k \in 1..Len(doc) : ~TitleMatch(doc[k]).matched

\* the Records, among those of the first n documents, with a ticker
RECURSIVE WithTicker(_)
WithTicker(n) ==
    IF n = 0 THEN << >>
    ELSE IF Parsed(n).ticker # << >> THEN Append(WithTicker(n - 1), Parsed(n))
    ELSE WithTicker(n - 1)

RECURSIVE SumOver(_, _)
SumOver(f, S) ==
    IF S = {} THEN 0
    ELSE LET x == CHOOSE x \in S : TRUE IN f[x] + SumOver(f, S \ {x})

\* C1: main writes a detail page for a document and hands its Record to
\* generate_index exactly when the parsed ticker is not empty; a document
\* with no line matching the title pattern gets no detail page and no index
\* card, and no counter counts it.
C1_TickerlessDropped ==
    (pc \in {"main", "done"}) =>
        /\ companies = WithTicker(idx - 1)
        /\ Len(written) = Len(companies) + (IF pc = "done" THEN 1 ELSE 0)
        /\ \A k \in 1..Len(companies) :
              written[k] = companies[k].ticker \o << ".", "html" >>
        /\ \A k \in 1..(idx - 1) :
              NoTitleLine(files[k]) => Parsed(k).ticker = << >>
        /\ pc = "done" =>
              LET index == outdir[IndexFile]
              IN  /\ Len(index.cards) = Len(companies)
                  /\ SumOver(index.stats, DOMAIN index.stats) = Len(companies)

C1_Witness ==
    /\ pc = "done"
    /\ \E k \in 1..Len(files) : NoTitleLine(files[k])
    /\ \E k \in 1..Len(files) : ~NoTitleLine(files[k]) /\ Parsed(k).ticker = << >>
    /\ Len(companies) = 1

\* C2: when the run completes, <TICKER>.html holds the detail page of every
\* Record with a ticker, whatever the documents (two with one ticker, a
\* ticker "index"), index.html holds the index page, and the index page is
\* written after all detail pages.
C2_EveryRecordHasItsPage ==
    pc = "done" =>
        /\ \A k \in 1..Len(companies) :
              /\ PageFile(companies[k].ticker) \in DOMAIN outdir
              /\ outdir[PageFile(companies[k].ticker)] =
                    GenerateCompanyPage(companies[k])
        /\ outdir[IndexFile] = GenerateIndex(companies)
        /\ written[Len(written)] = IndexFile
        /\ Len(written) = Len(companies) + 1

LabelOfId ==
    [UnsloppableBeneficiary |-> << "Unsloppable", " ", "+", " ", "Beneficiary" >>,
     UnsloppableHighTransitionRisk |->
        << "Unsloppable", " ", "+", " ", "High", " ", "Transition", " ", "Risk" >>,
     UnsloppableMacroExposed |-> << "Unsloppable", " ", "+", " ", "Macro", " ", "Exposed" >>,
     SloppableBeneficiary |-> << "Sloppable", " ", "+", " ", "Beneficiary" >>,
     SloppableClankerable |-> << "Sloppable", " ", "+", " ", "Clankerable" >>]

RecordsLabelled(labels) ==
    {k \in 1..Len(companies) : companies[k].final_classification \in labels}

\* C3: the five known counters start at zero and each ends as the number of
\* Records whose final_classification is exactly its label; a Record with
\* another label (the initial sentinel included) changes none of the five,
\* which so sum to the number of Records with a known label.
C3_Counters ==
    pc = "done" =>
        LET stats == outdir[IndexFile].stats
        IN  /\ DOMAIN LabelOfId \subseteq DOMAIN stats
            /\ \A id \in DOMAIN LabelOfId :
                  stats[id] = Cardinality(RecordsLabelled({LabelOfId[id]}))
            /\ SumOver(stats, DOMAIN LabelOfId) =
                  Cardinality(RecordsLabelled({LabelOfId[id] : id \in DOMAIN LabelOfId}))

C3_Witness ==
    /\ pc = "done"
    /\ outdir[IndexFile].stats["UnsloppableBeneficiary"] = 2
    /\ outdir[IndexFile].stats["SloppableClankerable"] = 0
    /\ \E k \in 1..Len(companies) : companies[k].final_classification = TEMP_MARKER

-----------------------------------------------------------------------------
(* Properties of get_score_class (SpecScore).                              *)

MaxNumeral == 99

RECURSIVE Numeral(_)
Numeral(n) ==
    IF n < 10 THEN << DigitSeq[n + 1] >>
    ELSE Append(Numeral(n \div 10), DigitSeq[(n % 10) + 1])

ClassOfInteger(n) ==
    IF n <= 3 THEN "text-green-600"
    ELSE IF n <= 6 THEN "text-yellow-600"
    ELSE "text-red-600"

\* C6: get_score_class gives the green class to every integer score <= 3,
\* the yellow class to 4..6, the red class to every integer above 6, the
\* gray class to an empty score and to one that is no number; it always
\* gives a class.
C6_ScoreClass ==
    pc = "scored" =>
        /\ \A n \in 0..MaxNumeral :
              /\ score = Numeral(n) => score_class = ClassOfInteger(n)
              /\ score = << "-" >> \o Numeral(n) => score_class = ClassOfInteger(0 - n)
        /\ score = << >> => score_class = "text-gray-600"
        /\ (\E k \in 1..Len(score) : score[k] \notin Digits \cup {"-", "+", " ", "\t"})
              => score_class = "text-gray-600"
        /\ score_class \in {"text-green-600", "text-yellow-600",
                            "text-red-600", "text-gray-600"}

C6_Witness ==
    /\ pc = "scored"
    /\ score = << "1", "0" >>
    /\ score_class = "text-red-600"

====
